---- MODULE Spec2Model ----
(***************************************************************************)
(* A model of the auto-complete trie of src/src/trie.py: the classes       *)
(* TrieNode and Trie, their insertion engine (insert_response and its      *)
(* helpers) and their query engine (generate_completions and its helpers). *)
(*                                                                         *)
(* A string is a sequence of one-character strings.  A node is named by    *)
(* the sequence of labels on the path from the root to it, the root being  *)
(* the empty path; the end-of-response node has the label "" as in the     *)
(* code.  A dict is a sequence of <<key, value>> pairs in insertion order, *)
(* the order Python's dict keeps and sorted() (a stable sort) depends on.  *)
(***************************************************************************)
EXTENDS Integers, Sequences, FiniteSets, TLC

\* ------------------------------------------------------------- bounds
\* Longest response and longest prefix passed to the trie.
MaxLen == 3
\* Number of insert_response calls in a behaviour.
MaxInserts == 3
\* Largest max_suggestions a trie is constructed with.
MaxSugg == 3
\* Largest min_words_partial a trie is constructed with.
MaxMinWords == 1
\* Number of insert_response calls of the build phase that precedes the serving phase.
MaxBuild == 2
\* Longest prefix a request handler of the serving phase queries.
MaxQueryLen == 2
\* Number of request handlers of the serving phase.
NumHandlers == 2

\* The characters responses and prefixes are made of.
Chars == {"a", " "}
\* All strings of at most MaxLen characters.
Strings == UNION {[1..n -> Chars] : n \in 0..MaxLen}
Responses == Strings
Prefixes == Strings

\* ------------------------------------------------------------- strings
RECURSIVE LStrip(_)
\* str.lstrip() on a string whose only whitespace is the space character.
LStrip(s) == IF s # <<>> /\ Head(s) = " " THEN LStrip(Tail(s)) ELSE s

RECURSIVE RStrip(_)
\* str.rstrip().
RStrip(s) ==
    IF s # <<>> /\ s[Len(s)] = " " THEN RStrip(SubSeq(s, 1, Len(s) - 1)) ELSE s

\* str.strip().
Strip(s) == RStrip(LStrip(s))

\* len(s.split(' ')): one more than the number of spaces, 1 for the empty string.
SplitLen(s) == 1 + Cardinality({i \in 1..Len(s) : s[i] = " "})

\* ------------------------------------------------------------- dicts
DictKeys(d) == {d[i][1] : i \in 1..Len(d)}

\* d[k] of a defaultdict(int), read without inserting.
DictGet(d, k) ==
    IF k \in DictKeys(d)
    THEN LET i == CHOOSE j \in 1..Len(d) : d[j][1] = k IN d[i][2]
    ELSE 0

\* d[k] += n on a defaultdict(int): a new key goes last, an old one keeps its place.
DictAdd(d, k, n) ==
    IF k \in DictKeys(d)
    THEN [i \in 1..Len(d) |-> IF d[i][1] = k THEN <<k, d[i][2] + n>> ELSE d[i]]
    ELSE Append(d, <<k, n>>)

\* The dict after del d[k], for a key it holds.
DictDel(d, k) == SelectSeq(d, LAMBDA e : e[1] # k)

RECURSIVE DictSum(_)
\* sum(d.values()).
DictSum(d) == IF d = <<>> THEN 0 ELSE d[1][2] + DictSum(Tail(d))

\* ------------------------------------------------------------- TrieNode
\* The label of the root, and of the node that ends a response.
RootLabel == "/"
EndLabel == ""
root == <<>>

\* node.label of the node at path n.
Label(n) == IF n = root THEN RootLabel ELSE n[Len(n)]

\* The sort key (count, -len(x)) of x compared: TRUE when x's key is the greater.
KeyGreater(d, x, y) ==
    \/ DictGet(d, x) > DictGet(d, y)
    \/ DictGet(d, x) = DictGet(d, y) /\ Len(x) < Len(y)

\* One key placed in a list sorted in descending order, behind the keys whose sort
\* key is not smaller (the sort is stable, reverse=True keeps the order of equals).
SortedInsert(d, sorted, x) ==
    LET before == {i \in 1..Len(sorted) : ~KeyGreater(d, x, sorted[i])}
        p == IF before = {} THEN 0 ELSE CHOOSE i \in before : \A j \in before : j <= i
    IN SubSeq(sorted, 1, p) \o <<x>> \o SubSeq(sorted, p + 1, Len(sorted))

RECURSIVE SortedKeys(_, _)
\* sorted(response_count, key=..., reverse=True) of the first n keys of d.
SortedKeys(d, n) ==
    IF n = 0 THEN <<>> ELSE SortedInsert(d, SortedKeys(d, n - 1), d[n][1])

\* lst[:m] for an integer m: a negative m counts from the end of the list.
Truncate(lst, m) ==
    SubSeq(lst, 1, IF m < 0 THEN (IF Len(lst) + m > 0 THEN Len(lst) + m ELSE 0)
                   ELSE IF m < Len(lst) THEN m ELSE Len(lst))

\* generate_suggestions without the test max_suggestions < 0.
GenerateSuggestionsUnchecked(d, max) ==
    IF max.type # "int" THEN [err |-> "TypeError", suggestions |-> <<>>]
    ELSE [err |-> "none", suggestions |-> Truncate(SortedKeys(d, Len(d)), max.value)]

\* generate_suggestions without the slice [:max_suggestions].
GenerateSuggestionsUncut(d, max) ==
    IF max.value < 0 THEN [err |-> "ValueError", suggestions |-> <<>>]
    ELSE IF max.type # "int" THEN [err |-> "TypeError", suggestions |-> <<>>]
    ELSE [err |-> "none", suggestions |-> SortedKeys(d, Len(d))]

\* generate_suggestions that converts its limit with int() before slicing.
GenerateSuggestionsCoercing(d, max) ==
    IF max.value < 0 THEN [err |-> "ValueError", suggestions |-> <<>>]
    ELSE [err |-> "none", suggestions |-> Truncate(SortedKeys(d, Len(d)), max.value)]

\* TrieNode.generate_suggestions on a node whose response_count is d, with the limit
\* max: the exception it raises ("none" when it raises nothing) and the list it stores.
GenerateSuggestions(d, max) ==
    IF max.value < 0 THEN [err |-> "ValueError", suggestions |-> <<>>]
    ELSE IF max.type # "int" THEN [err |-> "TypeError", suggestions |-> <<>>]
    ELSE [err |-> "none", suggestions |-> Truncate(SortedKeys(d, Len(d)), max.value)]

\* ------------------------------------------------------------- state
VARIABLES
    \* TrieNode attributes, one entry per node created so far
    children,                  \* node -> the labels of its children (the dict's keys)
    has_single_child,          \* node -> BOOLEAN
    response_count,            \* node -> dict from string to count
    suggestions,               \* node -> list of strings
    \* Trie configuration
    max_suggestions,           \* [type, value]: an int, or a float such as 5.0
    min_words_partial,
    \* Trie attributes set by insert_response
    response,                  \* _response
    current_node,              \* _current_node, shared with generate_completions
    response_count_along_path, \* _response_count_along_path: None or a dict
    inserted_chars,            \* _inserted_chars
    nodes_with_response,       \* _nodes_with_response
    \* Trie attributes set by generate_completions
    suggestions_along_path,    \* _suggestions_along_path
    no_match,                  \* _no_match
    \* the last call made on the trie, what it raised and what it returned
    call,
    raised,
    returned,
    \* history: how many times insert_response was called with each response
    inserted,
    \* request handlers running generate_completions during the serving phase
    handlers

nodeVars == <<children, has_single_child, response_count, suggestions>>
configVars == <<max_suggestions, min_words_partial>>
insertVars == <<response, response_count_along_path, inserted_chars, nodes_with_response>>
queryVars == <<suggestions_along_path, no_match>>
vars == <<nodeVars, configVars, insertVars, queryVars, current_node,
          call, raised, returned, inserted, handlers>>

\* The value None of _response_count_along_path, and a dict held there.
None == [is_none |-> TRUE, items |-> <<>>]
Some(d) == [is_none |-> FALSE, items |-> d]

\* The trie object as one value: the fields the methods below read and write, and
\* err, the exception raised by the call in progress ("none" while it runs on).
Trie ==
    [children |-> children, has_single_child |-> has_single_child,
     response_count |-> response_count, suggestions |-> suggestions,
     response |-> response, current_node |-> current_node,
     response_count_along_path |-> response_count_along_path,
     inserted_chars |-> inserted_chars, nodes_with_response |-> nodes_with_response,
     suggestions_along_path |-> suggestions_along_path, no_match |-> no_match,
     err |-> "none"]

\* Trie.__init__ with is_loaded False: the root node alone, TrieNode.__init__'s
\* defaults on it.  The attributes a later call sets first are given placeholders.
NewTrie ==
    [children |-> (root :> {}), has_single_child |-> (root :> TRUE),
     response_count |-> (root :> <<>>), suggestions |-> (root :> <<>>),
     response |-> <<>>, current_node |-> root,
     response_count_along_path |-> None,
     inserted_chars |-> <<>>, nodes_with_response |-> <<>>,
     suggestions_along_path |-> <<>>, no_match |-> FALSE,
     err |-> "none"]

\* ------------------------------------------------------------- insertion
\* An exception raised by the call in progress ends it: the statements that follow
\* are not run.  Each operator below returns the trie it is given when t.err is set.

\* children[char] = TrieNode(char) under node n.
AddChild(t, n, char) ==
    [t EXCEPT !.children = [@ EXCEPT ![n] = @ \cup {char}] @@ (Append(n, char) :> {}),
              !.has_single_child = @ @@ (Append(n, char) :> TRUE),
              !.response_count = @ @@ (Append(n, char) :> <<>>),
              !.suggestions = @ @@ (Append(n, char) :> <<>>)]

\* The assignment to node n's suggestions that ends generate_suggestions, or the
\* exception g.err it raised instead.
SetSuggestions(t, n, g) ==
    IF g.err # "none" THEN [t EXCEPT !.err = g.err]
    ELSE [t EXCEPT !.suggestions = [@ EXCEPT ![n] = g.suggestions]]

\* node.generate_suggestions(self.max_suggestions) on node n of t.
Rank(t, n) ==
    SetSuggestions(t, n, GenerateSuggestions(t.response_count[n], max_suggestions))

\* _store_response_single_child that leaves the current response in the copy.
DelResponseAndRankKeeping(t, single_child) ==
    IF t.response \notin DictKeys(t.response_count[single_child])
    THEN [t EXCEPT !.err = "KeyError"]
    ELSE Rank(t, single_child)

\* del single_child.response_count[self._response], then generate_suggestions.
DelResponseAndRank(t, single_child) ==
    IF t.response \notin DictKeys(t.response_count[single_child])
    THEN [t EXCEPT !.err = "KeyError"]
    ELSE Rank([t EXCEPT !.response_count =
                  [@ EXCEPT ![single_child] = DictDel(@, t.response)]],
              single_child)

\* _store_response_single_child without the bypass at the root.
StoreResponseSingleChildNoBypass(t, single_child) ==
    IF t.response_count_along_path.is_none THEN [t EXCEPT !.err = "AttributeError"]
    ELSE DelResponseAndRank(
             [t EXCEPT !.response_count =
                 [@ EXCEPT ![single_child] = t.response_count_along_path.items]],
             single_child)

\* Trie._store_response_single_child.
StoreResponseSingleChild(t, single_child) ==
    IF t.current_node = root THEN t
    ELSE IF t.response_count_along_path.is_none THEN [t EXCEPT !.err = "AttributeError"]
    ELSE DelResponseAndRank(
             [t EXCEPT !.response_count =
                 [@ EXCEPT ![single_child] = t.response_count_along_path.items]],
             single_child)

\* next(iter(self._current_node.children.values())) of a node that has children.
SingleChild(t) == Append(t.current_node, CHOOSE c \in t.children[t.current_node] : TRUE)

\* _create_new_branch that creates the node and leaves has_single_child as it is.
AddBranchUnflagged(t, char) ==
    IF t.err # "none" THEN t
    ELSE AddChild(t, t.current_node, char)

\* The last two statements of Trie._create_new_branch.
AddBranch(t, char) ==
    IF t.err # "none" THEN t
    ELSE [AddChild(t, t.current_node, char) EXCEPT
              !.has_single_child[t.current_node] = FALSE]

\* Trie._create_new_branch.
CreateNewBranch(t, char) ==
    AddBranch(IF t.has_single_child[t.current_node]
              THEN StoreResponseSingleChild(t, SingleChild(t))
              ELSE t,
              char)

RECURSIVE StoreAtNodes(_, _, _, _)
\* The loop of Trie._store_substring over _nodes_with_response, from its i-th node.
StoreAtNodes(t, key, add_count, i) ==
    IF t.err # "none" \/ i > Len(t.nodes_with_response) THEN t
    ELSE StoreAtNodes(
             Rank([t EXCEPT !.response_count =
                      [@ EXCEPT ![t.nodes_with_response[i]] = DictAdd(@, key, add_count)]],
                  t.nodes_with_response[i]),
             key, add_count, i + 1)

\* add_count that is 1 for a substring met for the first time too.
AddCountOne(along, key) == 1

\* add_count of Trie._store_substring for the substring key.
AddCount(along, key) == IF key \in DictKeys(along) THEN 1 ELSE DictSum(along)

\* _store_substring that records the characters inserted so far as they are, the
\* trailing space included.
StoreSubstringUnstripped(t) ==
    IF Label(t.current_node) # " " THEN t
    ELSE IF SplitLen(Strip(t.inserted_chars)) < min_words_partial THEN t
    ELSE IF t.response_count_along_path.is_none THEN [t EXCEPT !.err = "TypeError"]
    ELSE StoreAtNodes(t, t.inserted_chars,
                      AddCount(t.response_count_along_path.items, t.inserted_chars), 1)

\* _store_substring without the test of min_words_partial.
StoreSubstringAnyLength(t) ==
    IF Label(t.current_node) # " " THEN t
    ELSE IF t.response_count_along_path.is_none THEN [t EXCEPT !.err = "TypeError"]
    ELSE StoreAtNodes(t, Strip(t.inserted_chars),
                      AddCount(t.response_count_along_path.items, Strip(t.inserted_chars)),
                      1)

\* Trie._store_substring.
StoreSubstring(t) ==
    IF Label(t.current_node) # " " THEN t
    ELSE IF SplitLen(Strip(t.inserted_chars)) < min_words_partial THEN t
    ELSE IF t.response_count_along_path.is_none THEN [t EXCEPT !.err = "TypeError"]
    ELSE StoreAtNodes(t, Strip(t.inserted_chars),
                      AddCount(t.response_count_along_path.items, Strip(t.inserted_chars)),
                      1)

\* next_node.response_count[self._response] += 1 that leaves the node's suggestions
\* as they were.
CountResponseUnranked(t, next_node) ==
    IF t.err # "none" THEN t
    ELSE [t EXCEPT !.response_count =
             [@ EXCEPT ![next_node] = DictAdd(@, t.response, 1)]]

\* next_node.response_count[self._response] += 1, then generate_suggestions.
CountResponse(t, next_node) ==
    IF t.err # "none" THEN t
    ELSE Rank([t EXCEPT !.response_count =
                  [@ EXCEPT ![next_node] = DictAdd(@, t.response, 1)]],
              next_node)

\* _store_response_next_node without the exception made for the root: nothing is
\* recorded at the root's children.
StoreResponseNextNodeRootless(t, next_node) ==
    IF t.has_single_child[t.current_node] THEN t
    ELSE CountResponse(StoreSubstring(t), next_node)

\* _store_response_next_node without its early return: the response is recorded at
\* every node of its path.
StoreResponseNextNodeEverywhere(t, next_node) ==
    CountResponse(StoreSubstring(t), next_node)

\* Trie._store_response_next_node.
StoreResponseNextNode(t, next_node) ==
    IF t.current_node # root /\ t.has_single_child[t.current_node] THEN t
    ELSE CountResponse(StoreSubstring(t), next_node)

\* The first statement of Trie._visit_next_node: the path's snapshot is refreshed at
\* a node that holds counts.
SnapshotCounts(t) ==
    IF t.response_count[t.current_node] # <<>>
    THEN [t EXCEPT !.response_count_along_path = Some(t.response_count[t.current_node])]
    ELSE t

\* The if/elif of Trie._visit_next_node that branches at every node that has
\* children, the one for char among them or not.
CreateIfMissingAlwaysBranch(t, char) ==
    IF t.children[t.current_node] = {} THEN AddChild(t, t.current_node, char)
    ELSE CreateNewBranch(t, char)

\* The if/elif of Trie._visit_next_node: the child for char is created if missing.
CreateIfMissing(t, char) ==
    IF t.children[t.current_node] = {} THEN AddChild(t, t.current_node, char)
    ELSE IF char \notin t.children[t.current_node] THEN CreateNewBranch(t, char)
    ELSE t

\* next_node = children[char]; self._store_response_next_node(next_node).
StoreNext(t, char) ==
    IF t.err # "none" THEN t
    ELSE StoreResponseNextNode(t, Append(t.current_node, char))

\* The last statements of Trie._visit_next_node: the current node joins
\* _nodes_with_response if it holds counts, and the next node becomes current.
Advance(t, char) ==
    IF t.err # "none" THEN t
    ELSE [t EXCEPT !.nodes_with_response =
                       IF t.response_count[t.current_node] # <<>>
                       THEN Append(@, t.current_node) ELSE @,
                   !.current_node = Append(@, char)]

\* Trie._visit_next_node.
VisitNextNode(t, char) ==
    Advance(StoreNext(CreateIfMissing(SnapshotCounts(t), char), char), char)

\* self._inserted_chars += char.
AppendChar(t, char) ==
    IF t.err # "none" THEN t ELSE [t EXCEPT !.inserted_chars = Append(@, char)]

RECURSIVE InsertChars(_, _)
\* The loop of Trie.insert_response over the characters left, then the visit of the
\* end-of-response node.
InsertChars(t, rest) ==
    IF t.err # "none" THEN t
    ELSE IF rest = <<>> THEN VisitNextNode(t, EndLabel)
    ELSE InsertChars(AppendChar(VisitNextNode(t, Head(rest)), Head(rest)), Tail(rest))

\* The assignments Trie.insert_response starts with.
StartInsert(t, r) ==
    [t EXCEPT !.response = r, !.current_node = root,
              !.response_count_along_path = None,
              !.inserted_chars = <<>>, !.nodes_with_response = <<>>,
              !.err = "none"]

\* Trie.insert_response.
InsertResponse(t, r) == InsertChars(StartInsert(t, r), r)

\* ------------------------------------------------------------- query
\* Trie._reset_for_auto_complete.
ResetForAutoComplete(t) ==
    [t EXCEPT !.current_node = root, !.suggestions_along_path = <<>>,
              !.no_match = FALSE]

\* _generate_completions_by_char keeping the first cached list met: a deeper one does
\* not replace it.
GenerateCompletionsByCharFirstCache(t, char) ==
    IF char \notin t.children[t.current_node]
    THEN [t EXCEPT !.no_match = TRUE, !.suggestions_along_path = <<>>]
    ELSE LET next_node == Append(t.current_node, char)
         IN [t EXCEPT !.suggestions_along_path =
                          IF @ = <<>> THEN t.suggestions[next_node] ELSE @,
                      !.current_node = next_node]

\* _generate_completions_by_char whose except clause forgets to clear the list.
GenerateCompletionsByCharKeep(t, char) ==
    IF char \notin t.children[t.current_node]
    THEN [t EXCEPT !.no_match = TRUE]
    ELSE LET next_node == Append(t.current_node, char)
         IN [t EXCEPT !.suggestions_along_path =
                          IF t.suggestions[next_node] # <<>>
                          THEN t.suggestions[next_node] ELSE @,
                      !.current_node = next_node]

\* _generate_completions_by_char on children kept in a defaultdict: looking up a
\* missing child creates it.
GenerateCompletionsByCharCreating(t, char) ==
    IF char \notin t.children[t.current_node]
    THEN [AddChild(t, t.current_node, char) EXCEPT
              !.no_match = TRUE, !.suggestions_along_path = <<>>]
    ELSE [t EXCEPT !.suggestions_along_path =
                       IF t.suggestions[Append(t.current_node, char)] # <<>>
                       THEN t.suggestions[Append(t.current_node, char)] ELSE @,
                   !.current_node = Append(@, char)]

\* Trie._generate_completions_by_char.
GenerateCompletionsByChar(t, char) ==
    IF char \notin t.children[t.current_node]
    THEN [t EXCEPT !.no_match = TRUE, !.suggestions_along_path = <<>>]
    ELSE LET next_node == Append(t.current_node, char)
         IN [t EXCEPT !.suggestions_along_path =
                          IF t.suggestions[next_node] # <<>>
                          THEN t.suggestions[next_node] ELSE @,
                      !.current_node = next_node]

RECURSIVE CompletionsLoop(_, _)
\* The loop of Trie.generate_completions over the characters left.
CompletionsLoop(t, rest) ==
    IF rest = <<>> \/ t.no_match THEN t
    ELSE CompletionsLoop(GenerateCompletionsByChar(t, Head(rest)), Tail(rest))

\* Trie.generate_completions: the trie after the call; the list returned is its
\* suggestions_along_path.
GenerateCompletions(t, prefix) == CompletionsLoop(ResetForAutoComplete(t), prefix)

\* ------------------------------------------------------------- actions
\* The values max_suggestions is given: an integer from -1 up.
IntLimits == {[type |-> "int", value |-> v] : v \in -1..MaxSugg}

NoCall == [op |-> "none", arg |-> <<>>]

\* The number of insert_response calls made so far.
NumInserted == LET RECURSIVE Sum(_)
                   Sum(S) == IF S = {} THEN 0
                             ELSE LET x == CHOOSE y \in S : TRUE
                                  IN inserted[x] + Sum(S \ {x})
               IN Sum(Responses)

\* The variables hold the trie object t.
Store(t) ==
    /\ children' = t.children
    /\ has_single_child' = t.has_single_child
    /\ response_count' = t.response_count
    /\ suggestions' = t.suggestions
    /\ response' = t.response
    /\ current_node' = t.current_node
    /\ response_count_along_path' = t.response_count_along_path
    /\ inserted_chars' = t.inserted_chars
    /\ nodes_with_response' = t.nodes_with_response
    /\ suggestions_along_path' = t.suggestions_along_path
    /\ no_match' = t.no_match
    /\ raised' = t.err

\* The variables hold the trie object t, and the list generate_completions returns.
StoreReturned(t) == Store(t) /\ returned' = t.suggestions_along_path

\* Trie(max_suggestions, min_words_partial) before any call.
InitWith(limits) ==
    /\ max_suggestions \in limits
    /\ min_words_partial \in 1..MaxMinWords
    /\ children = NewTrie.children
    /\ has_single_child = NewTrie.has_single_child
    /\ response_count = NewTrie.response_count
    /\ suggestions = NewTrie.suggestions
    /\ response = NewTrie.response
    /\ current_node = NewTrie.current_node
    /\ response_count_along_path = NewTrie.response_count_along_path
    /\ inserted_chars = NewTrie.inserted_chars
    /\ nodes_with_response = NewTrie.nodes_with_response
    /\ suggestions_along_path = NewTrie.suggestions_along_path
    /\ no_match = NewTrie.no_match
    /\ call = NoCall
    /\ raised = "none"
    /\ returned = <<>>
    /\ inserted = [r \in Responses |-> 0]
    /\ handlers = <<>>

Init == InitWith(IntLimits)

\* A call trie.insert_response(r), run to its end or to the exception it raises.
Insert(r) ==
    /\ Store(InsertResponse(Trie, r))
    /\ call' = [op |-> "insert_response", arg |-> r]
    /\ returned' = <<>>
    /\ inserted' = [inserted EXCEPT ![r] = @ + 1]
    /\ UNCHANGED <<configVars, handlers>>

\* A call trie.generate_completions(p), run alone.
Query(p) ==
    /\ StoreReturned(GenerateCompletions(Trie, p))
    /\ call' = [op |-> "generate_completions", arg |-> p]
    /\ UNCHANGED <<configVars, inserted, handlers>>

Next ==
    \/ /\ NumInserted < MaxInserts
       /\ \E r \in Responses : Insert(r)
    \/ \E p \in Prefixes : Query(p)

Spec == Init /\ [][Next]_vars

\* ------------------------------------------------------------- serving phase
\* The request handlers of launch_auto_complete.py: each runs fetch_suggestions, which
\* calls generate_completions on the one trie of the server.
Handlers == 1..NumHandlers
ServePrefixes == {p \in Prefixes : Len(p) <= MaxQueryLen}
Idle == [pc |-> "idle", prefix |-> <<>>, rest |-> <<>>, ret |-> <<>>]

InitServe ==
    /\ InitWith({[type |-> "int", value |-> MaxSugg]})
    /\ handlers = [h \in {} |-> Idle]

\* A request arrives: a handler is created for it.
Accept ==
    /\ Len(handlers) < NumHandlers
    /\ handlers' = Append(handlers, Idle)
    /\ UNCHANGED <<nodeVars, configVars, insertVars, queryVars, current_node,
                   call, raised, returned, inserted>>

\* An insert_response call of the build phase: no request has arrived yet.
BuildInsert(r) ==
    /\ handlers = <<>>
    /\ NumInserted < MaxBuild
    /\ Insert(r)

\* Handler h enters generate_completions(p): _reset_for_auto_complete.
StartQuery(h, p) ==
    /\ handlers[h].pc = "idle"
    /\ Store(ResetForAutoComplete(Trie))
    /\ handlers' = [handlers EXCEPT ![h] = [pc |-> "loop", prefix |-> p, rest |-> p,
                                            ret |-> <<>>]]
    /\ call' = [op |-> "generate_completions", arg |-> p]
    /\ UNCHANGED <<configVars, returned, inserted>>

\* Handler h runs one iteration of the loop over its prefix.
CharStep(h) ==
    /\ handlers[h].pc = "loop"
    /\ handlers[h].rest # <<>>
    /\ ~no_match
    /\ Store(GenerateCompletionsByChar(Trie, Head(handlers[h].rest)))
    /\ handlers' = [handlers EXCEPT ![h].rest = Tail(@)]
    /\ UNCHANGED <<configVars, call, returned, inserted>>

\* Handler h leaves the loop, at the end of its prefix or at the break, and returns
\* self._suggestions_along_path.
Return(h) ==
    /\ handlers[h].pc = "loop"
    /\ handlers[h].rest = <<>> \/ no_match
    /\ handlers' = [handlers EXCEPT ![h].pc = "done", ![h].ret = suggestions_along_path]
    /\ returned' = suggestions_along_path
    /\ UNCHANGED <<nodeVars, configVars, insertVars, queryVars, current_node,
                   call, raised, inserted>>

NextServe ==
    \/ \E r \in Responses : BuildInsert(r)
    \/ Accept
    \/ \E h \in DOMAIN handlers, p \in ServePrefixes : StartQuery(h, p)
    \/ \E h \in DOMAIN handlers : CharStep(h)
    \/ \E h \in DOMAIN handlers : Return(h)

SpecServe == InitServe /\ [][NextServe]_vars

\* ------------------------------------------------------------- direct ranking
\* The values max_suggestions is given here: integers, and floats such as 5.0.
FloatLimits == {[type |-> "float", value |-> v] : v \in {-1, MaxSugg}}
AnyLimits == IntLimits \cup FloatLimits
\* The limits generate_suggestions is called with directly.
RankLimits == {[type |-> ty, value |-> v] : ty \in {"int", "float"}, v \in {-1, MaxSugg}}

InitRank == InitWith(AnyLimits)

\* The list node.generate_suggestions stored, or the exception it raised.
StoreRanking(n, g) ==
    /\ suggestions' = IF g.err = "none" THEN [suggestions EXCEPT ![n] = g.suggestions]
                      ELSE suggestions
    /\ raised' = g.err

\* A call node.generate_suggestions(m) on node n of the trie, as the tests make on a
\* node of their own.
ComputeRanking(n, m) ==
    /\ StoreRanking(n, GenerateSuggestions(response_count[n], m))
    /\ call' = [op |-> "generate_suggestions", arg |-> [node |-> n, limit |-> m]]
    /\ returned' = <<>>
    /\ UNCHANGED <<children, has_single_child, response_count, configVars, insertVars,
                   queryVars, current_node, inserted, handlers>>

NextRank ==
    \/ /\ NumInserted < MaxBuild
       /\ \E r \in Responses : Insert(r)
    \/ \E n \in DOMAIN children, m \in RankLimits : ComputeRanking(n, m)

SpecRank == InitRank /\ [][NextRank]_vars

\* ------------------------------------------------------------- insertion by steps
\* insert_response run one _visit_next_node call at a time.  The position in the
\* response is the length of _inserted_chars; the call ends with the visit of the
\* end-of-response node, and call names insert_response once it has ended.
Inserting == call.op \in {"insert_response_start", "_visit_next_node"} /\ raised = "none"

\* Every character of the response has been visited: the end-of-response node is next.
AtEnd == Len(inserted_chars) = Len(response)

\* The character the loop of insert_response is at.
NextChar == IF AtEnd THEN EndLabel ELSE response[Len(inserted_chars) + 1]

\* trie.insert_response(r) is called: the assignments that precede its loop.
BeginInsert(r) ==
    /\ ~Inserting
    /\ Store(StartInsert(Trie, r))
    /\ call' = [op |-> "insert_response_start", arg |-> r]
    /\ returned' = <<>>
    /\ inserted' = [inserted EXCEPT ![r] = @ + 1]
    /\ UNCHANGED <<configVars, handlers>>

\* One iteration of the loop of insert_response, or the visit that follows the loop.
VisitStep ==
    /\ Inserting
    /\ Store(IF AtEnd THEN VisitNextNode(Trie, EndLabel)
             ELSE AppendChar(VisitNextNode(Trie, NextChar), NextChar))
    /\ call' = IF AtEnd THEN [op |-> "insert_response", arg |-> response]
               ELSE [op |-> "_visit_next_node", arg |-> NextChar]
    /\ UNCHANGED <<configVars, returned, inserted, handlers>>

\* The values max_suggestions is given here: the integers from 0 up.
ValidLimits == {[type |-> "int", value |-> v] : v \in 0..MaxSugg}

InitSteps == InitWith(ValidLimits)

NextSteps ==
    \/ /\ NumInserted < MaxInserts
       /\ \E r \in Responses : BeginInsert(r)
    \/ VisitStep

SpecSteps == InitSteps /\ [][NextSteps]_vars

\* ------------------------------------------------------------- a query amid an insertion
\* generate_completions(p) called between two _visit_next_node calls of an
\* insert_response in progress, as a second thread of the server would: the call
\* runs to its end, and the insertion goes on from the attributes it leaves.
MidQuery(p) ==
    /\ Inserting
    /\ StoreReturned(GenerateCompletions(Trie, p))
    /\ UNCHANGED <<configVars, call, inserted, handlers>>

InitAmid == InitWith({[type |-> "int", value |-> MaxSugg]})

NextAmid ==
    \/ /\ NumInserted < MaxBuild
       /\ \E r \in Responses : BeginInsert(r)
    \/ VisitStep
    \/ \E p \in ServePrefixes : MidQuery(p)

SpecAmid == InitAmid /\ [][NextAmid]_vars

\* ------------------------------------------------------------- normalized responses
\* Responses of words separated by one space: no space at either end, no two spaces
\* in a row.  Two letters let a node that follows a space branch.
CleanChars == {"a", "b", " "}

Clean(s) ==
    /\ s # <<>> => (s[1] # " " /\ s[Len(s)] # " ")
    /\ \A i \in 1..(Len(s) - 1) : ~(s[i] = " " /\ s[i + 1] = " ")

CleanResponses == {s \in UNION {[1..n -> CleanChars] : n \in 0..MaxLen} : Clean(s)}

\* The prefixes queried: any characters, spaces at the end included.
CleanPrefixes == UNION {[1..n -> CleanChars] : n \in 1..MaxQueryLen}

\* The number of insert_response calls made so far with these responses.
CleanInserted ==
    LET RECURSIVE Sum(_)
        Sum(S) == IF S = {} THEN 0
                  ELSE LET x == CHOOSE y \in S : TRUE IN inserted[x] + Sum(S \ {x})
    IN Sum(CleanResponses)

InitClean ==
    /\ max_suggestions \in {[type |-> "int", value |-> v] : v \in {1, MaxSugg}}
    /\ min_words_partial \in 1..MaxMinWords
    /\ children = NewTrie.children
    /\ has_single_child = NewTrie.has_single_child
    /\ response_count = NewTrie.response_count
    /\ suggestions = NewTrie.suggestions
    /\ response = NewTrie.response
    /\ current_node = NewTrie.current_node
    /\ response_count_along_path = NewTrie.response_count_along_path
    /\ inserted_chars = NewTrie.inserted_chars
    /\ nodes_with_response = NewTrie.nodes_with_response
    /\ suggestions_along_path = NewTrie.suggestions_along_path
    /\ no_match = NewTrie.no_match
    /\ call = NoCall
    /\ raised = "none"
    /\ returned = <<>>
    /\ inserted = [r \in CleanResponses |-> 0]
    /\ handlers = <<>>

NextClean ==
    \/ /\ CleanInserted < MaxInserts
       /\ \E r \in CleanResponses : Insert(r)
    \/ \E p \in CleanPrefixes : Query(p)

SpecClean == InitClean /\ [][NextClean]_vars

\* ------------------------------------------------------------- longer responses
\* Responses of up to MaxLen + 1 characters that share their first character, of two
\* characters or more: responses that extend one another by a word.
LongResponses ==
    {s \in UNION {[1..n -> Chars] : n \in 2..(MaxLen + 1)} : s[1] = "a"}

\* The number of insert_response calls made so far with these responses.
LongInserted ==
    LET RECURSIVE Sum(_)
        Sum(S) == IF S = {} THEN 0
                  ELSE LET x == CHOOSE y \in S : TRUE IN inserted[x] + Sum(S \ {x})
    IN Sum(LongResponses)

InitLong ==
    /\ max_suggestions = [type |-> "int", value |-> MaxSugg]
    /\ min_words_partial \in 1..MaxMinWords
    /\ children = NewTrie.children
    /\ has_single_child = NewTrie.has_single_child
    /\ response_count = NewTrie.response_count
    /\ suggestions = NewTrie.suggestions
    /\ response = NewTrie.response
    /\ current_node = NewTrie.current_node
    /\ response_count_along_path = NewTrie.response_count_along_path
    /\ inserted_chars = NewTrie.inserted_chars
    /\ nodes_with_response = NewTrie.nodes_with_response
    /\ suggestions_along_path = NewTrie.suggestions_along_path
    /\ no_match = NewTrie.no_match
    /\ call = NoCall
    /\ raised = "none"
    /\ returned = <<>>
    /\ inserted = [r \in LongResponses |-> 0]
    /\ handlers = <<>>

NextLong ==
    \/ /\ LongInserted < MaxInserts + 1
       /\ \E r \in LongResponses : BeginInsert(r)
    \/ VisitStep

SpecLong == InitLong /\ [][NextLong]_vars

\* ------------------------------------------------------------- the tests' scenario
\* The sentences of test_insert_response_completions and test_insert_response_counts.
RECURSIVE Join(_)
\* ' '.join(words).
Join(words) ==
    IF words = <<>> THEN <<>>
    ELSE IF Len(words) = 1 THEN words[1]
    ELSE words[1] \o <<" ">> \o Join(Tail(words))

WordWhat == <<"w", "h", "a", "t">>
WordIs == <<"i", "s">>
WordYour == <<"y", "o", "u", "r">>
WordAccount == <<"a", "c", "c", "o", "u", "n", "t">>
WordNumber == <<"n", "u", "m", "b", "e", "r">>
WordAnd == <<"a", "n", "d">>
WordAddress == <<"a", "d", "d", "r", "e", "s", "s">>
WordThe == <<"t", "h", "e">>
WordIssue == <<"i", "s", "s", "u", "e">>
WordYou == <<"y", "o", "u">>
WordAre == <<"a", "r", "e">>
WordFacing == <<"f", "a", "c", "i", "n", "g">>
WordPlease == <<"p", "l", "e", "a", "s", "e">>

WhatIs == Join(<<WordWhat, WordIs>>)
WhatIsThe == Join(<<WordWhat, WordIs, WordThe>>)
YourAccountNumberAndAddress ==
    Join(<<WordWhat, WordIs, WordYour, WordAccount, WordNumber, WordAnd, WordAddress>>)
YourAccountNumber == Join(<<WordWhat, WordIs, WordYour, WordAccount, WordNumber>>)
TheAccountNumber == Join(<<WordWhat, WordIs, WordThe, WordAccount, WordNumber>>)
TheIssueYouAreFacing ==
    Join(<<WordWhat, WordIs, WordThe, WordIssue, WordYou, WordAre, WordFacing>>)
YourAccountNumberPlease ==
    Join(<<WordWhat, WordIs, WordYour, WordAccount, WordNumber, WordPlease>>)

\* The insert_response calls of the tests, in order; test_insert_response_counts
\* makes the first five of them.
Script ==
    <<YourAccountNumberAndAddress, YourAccountNumber, TheAccountNumber,
      TheIssueYouAreFacing, TheIssueYouAreFacing, YourAccountNumberPlease>>

ScriptResponses == {Script[i] : i \in 1..Len(Script)}

\* The prefix the test queries.
ScriptPrefix == <<"w">>

\* The tries the two tests construct.
CompletionsTrie == [max_suggestions |-> [type |-> "int", value |-> 5], min_words_partial |-> 3]
CountsTrie == [max_suggestions |-> [type |-> "int", value |-> 6], min_words_partial |-> 1]

\* The number of insert_response calls of the script made so far.
ScriptDone ==
    LET RECURSIVE Sum(_)
        Sum(S) == IF S = {} THEN 0
                  ELSE LET x == CHOOSE y \in S : TRUE IN inserted[x] + Sum(S \ {x})
    IN Sum(ScriptResponses)

InitScenario ==
    /\ \E c \in {CompletionsTrie, CountsTrie} :
          /\ max_suggestions = c.max_suggestions
          /\ min_words_partial = c.min_words_partial
    /\ children = NewTrie.children
    /\ has_single_child = NewTrie.has_single_child
    /\ response_count = NewTrie.response_count
    /\ suggestions = NewTrie.suggestions
    /\ response = NewTrie.response
    /\ current_node = NewTrie.current_node
    /\ response_count_along_path = NewTrie.response_count_along_path
    /\ inserted_chars = NewTrie.inserted_chars
    /\ nodes_with_response = NewTrie.nodes_with_response
    /\ suggestions_along_path = NewTrie.suggestions_along_path
    /\ no_match = NewTrie.no_match
    /\ call = NoCall
    /\ raised = "none"
    /\ returned = <<>>
    /\ inserted = [r \in ScriptResponses |-> 0]
    /\ handlers = <<>>

\* The next insert_response call of the script.
ScriptInsert ==
    /\ ScriptDone < Len(Script)
    /\ BeginInsert(Script[ScriptDone + 1])

\* generate_completions('w'), between two calls of the script or after the last.
ScriptQuery ==
    /\ ~Inserting
    /\ Query(ScriptPrefix)

NextScenario == ScriptInsert \/ VisitStep \/ ScriptQuery

SpecScenario == InitScenario /\ [][NextScenario]_vars

\* ------------------------------------------------------------- helpers of the claims
IsQuery == call.op = "generate_completions"
IsInsert == call.op = "insert_response"
ValidLimit == max_suggestions.type = "int" /\ max_suggestions.value >= 0

\* The nodes of the trie other than the root.
Nodes == DOMAIN children \ {root}

\* The leading parts of p: p[:k] for k = 1..len(p).
LeadingParts(p) == {SubSeq(p, 1, k) : k \in 1..Len(p)}

\* The nodes reached by the characters of p, while they match.
PathNodes(p) == {n \in LeadingParts(p) : \A k \in 1..Len(n) : SubSeq(n, 1, k) \in Nodes}

\* Every character of p is matched along a path from the root.
Matched(p) == LeadingParts(p) \subseteq Nodes

NoRepeat(lst) == \A i, j \in 1..Len(lst) : lst[i] = lst[j] => i = j

\* lst is in the order (count descending, length ascending) of the counts d.
Ranked(d, lst) ==
    \A i, j \in 1..Len(lst) :
        i < j => /\ DictGet(d, lst[i]) >= DictGet(d, lst[j])
                 /\ DictGet(d, lst[i]) = DictGet(d, lst[j]) => Len(lst[i]) <= Len(lst[j])

\* ------------------------------------------------------------- C1
\* C1: on a trie with a non-negative integer max_suggestions, the list returned by
\* generate_completions has at most max_suggestions entries, repeats no entry, and is
\* the cached list of a node on the prefix's path, in the order (count descending,
\* length ascending) of that node's response_count.
C1_BoundedRankedCompletions ==
    (IsQuery /\ ValidLimit) =>
        /\ Len(returned) <= max_suggestions.value
        /\ NoRepeat(returned)
        /\ \/ returned = <<>>
           \/ \E n \in PathNodes(call.arg) :
                 /\ returned = suggestions[n]
                 /\ {returned[i] : i \in 1..Len(returned)} \subseteq DictKeys(response_count[n])
                 /\ Ranked(response_count[n], returned)

\* A query returned a list cut to max_suggestions, of two entries or more, that a
\* count decides the order of.
C1_Witness ==
    /\ IsQuery /\ ValidLimit
    /\ Len(returned) >= 2
    /\ Len(returned) = max_suggestions.value
    /\ \E n \in PathNodes(call.arg) :
          /\ returned = suggestions[n]
          /\ Len(response_count[n]) > max_suggestions.value
          /\ DictGet(response_count[n], returned[1]) > DictGet(response_count[n], returned[2])

\* ------------------------------------------------------------- C2
\* The deepest node on p's path whose suggestions list is not empty, as a set: empty
\* when there is none.
DeepestCached(p) ==
    LET cached == {n \in PathNodes(p) : suggestions[n] # <<>>}
    IN {n \in cached : \A m \in cached : Len(m) <= Len(n)}

\* C2: for a prefix whose every character is matched, generate_completions returns
\* the cached suggestions of the deepest node on the path whose list is not empty,
\* and the empty list when no node on the path has one.
C2_DeepestCacheReturned ==
    (IsQuery /\ Matched(call.arg)) =>
        /\ DeepestCached(call.arg) = {} => returned = <<>>
        /\ \A n \in DeepestCached(call.arg) : returned = suggestions[n]

\* A matched prefix whose path holds two cached lists that differ, the deeper above
\* the prefix's last node, which holds none.
C2_Witness ==
    /\ IsQuery /\ Matched(call.arg)
    /\ \E n \in DeepestCached(call.arg) :
          /\ Len(n) < Len(call.arg)
          /\ returned = suggestions[n]
          /\ \E m \in PathNodes(call.arg) :
                Len(m) < Len(n) /\ suggestions[m] # <<>> /\ suggestions[m] # suggestions[n]

\* ------------------------------------------------------------- C3
\* The longest leading part of p that is matched (the root when none is).
MatchedPart(p) ==
    IF PathNodes(p) = {} THEN root
    ELSE CHOOSE n \in PathNodes(p) : \A m \in PathNodes(p) : Len(m) <= Len(n)

\* C3: for a prefix with an unmatched character, generate_completions raises nothing
\* and returns the empty list, whatever the matched nodes hold; the traversal stops
\* at the first unmatched character, so that no later character is looked at.
C3_UnmatchedPrefixEmpty ==
    (IsQuery /\ ~Matched(call.arg)) =>
        /\ raised = "none"
        /\ returned = <<>>
        /\ no_match
        /\ current_node = MatchedPart(call.arg)

\* An unmatched character after a node that holds suggestions, and before another
\* character.
C3_Witness ==
    /\ IsQuery /\ ~Matched(call.arg)
    /\ MatchedPart(call.arg) # root
    /\ suggestions[MatchedPart(call.arg)] # <<>>
    /\ Len(call.arg) >= Len(MatchedPart(call.arg)) + 2
    /\ returned = <<>>

\* ------------------------------------------------------------- C4
\* The responses insert_response was called with.
InsertedResponses == {r \in Responses : inserted[r] > 0}

\* The distinct strings recorded in the trie: the keys of every node's response_count.
RecordedStrings == UNION {DictKeys(response_count[n]) : n \in DOMAIN children}

ListItems(lst) == {lst[i] : i \in 1..Len(lst)}

\* C4: when max_suggestions is a non-negative integer at least as large as the number
\* of distinct strings recorded in the trie, generate_completions(P) holds R for every
\* inserted response R and every non-empty leading part P of R, R itself included.
C4_InsertedResponseRecovered ==
    (IsQuery /\ ValidLimit /\ max_suggestions.value >= Cardinality(RecordedStrings)) =>
        \A r \in InsertedResponses : call.arg \in LeadingParts(r) => r \in ListItems(returned)

\* A query below the root's child, answered from a node deeper in the trie, in a trie
\* that holds three strings or more, a partial substring among them.
C4_Witness ==
    /\ IsQuery /\ ValidLimit
    /\ max_suggestions.value >= Cardinality(RecordedStrings)
    /\ Cardinality(RecordedStrings) >= 3
    /\ RecordedStrings \ InsertedResponses # {}
    /\ \E r \in InsertedResponses : call.arg \in LeadingParts(r) /\ r \in ListItems(returned)
    /\ \E n \in DeepestCached(call.arg) : Len(n) >= 2

\* ------------------------------------------------------------- C5
\* The partial substrings of r: its leading parts that end with a space, stripped.
Partials(r) == {Strip(SubSeq(r, 1, k)) : k \in {i \in 1..Len(r) : r[i] = " "}}

\* C5: every string generate_completions returns is an inserted response or the
\* stripped leading part, ending at a space, of an inserted response.
C5_OnlyInsertedOrPartial ==
    IsQuery =>
        ListItems(returned) \subseteq
            InsertedResponses \cup UNION {Partials(r) : r \in InsertedResponses}

\* A query returned a partial substring that was never inserted itself.
C5_Witness ==
    /\ IsQuery
    /\ \E s \in ListItems(returned) :
          /\ s \notin InsertedResponses
          /\ s # <<>>
          /\ \E r \in InsertedResponses : s \in Partials(r)

\* ------------------------------------------------------------- C6
\* The child of the root a response starts at: its first character's, or the
\* end-of-response node for the empty response.
FirstNode(r) == <<IF r = <<>> THEN EndLabel ELSE r[1]>>

\* C6: inserting a response that was inserted before creates no node, changes no
\* node's children nor has_single_child, and adds exactly 1 to the response's count at
\* the root's child it starts at.
C6_RepeatKeepsShape ==
    [][(IsInsert' /\ inserted[call'.arg] > 0) =>
          /\ children' = children
          /\ has_single_child' = has_single_child
          /\ DictGet(response_count'[FirstNode(call'.arg)], call'.arg)
                = DictGet(response_count[FirstNode(call'.arg)], call'.arg) + 1]_vars

\* A response of two characters or more was inserted a second time, through a node
\* that has branched.
C6_Witness ==
    /\ IsInsert /\ raised = "none"
    /\ inserted[call.arg] >= 2
    /\ Len(call.arg) >= 2
    /\ \E n \in PathNodes(call.arg) : ~has_single_child[n]

\* ------------------------------------------------------------- C7
\* The orders the responses inserted so far can be inserted in.
Orderings ==
    {s \in [1..NumInserted -> InsertedResponses] :
        \A r \in InsertedResponses : Cardinality({i \in 1..NumInserted : s[i] = r}) = inserted[r]}

RECURSIVE BuildTrie(_)
\* The trie a new Trie of the same configuration becomes by inserting s in order.
BuildTrie(s) ==
    IF s = <<>> THEN NewTrie
    ELSE InsertResponse(BuildTrie(SubSeq(s, 1, Len(s) - 1)), s[Len(s)])

\* The dicts c and d map the same keys to the same counts.
SameCounts(c, d) ==
    /\ DictKeys(c) = DictKeys(d)
    /\ \A k \in DictKeys(c) : DictGet(c, k) = DictGet(d, k)

\* The trie t has the shape of the trie in the variables, and at every node the same
\* response_count mapping and the same suggestions list.
SameTree(t) ==
    /\ t.children = children
    /\ t.has_single_child = has_single_child
    /\ \A n \in DOMAIN children :
          /\ SameCounts(t.response_count[n], response_count[n])
          /\ t.suggestions[n] = suggestions[n]

\* C7: insertion order independence: the responses inserted so far, inserted in any
\* other order into a trie of the same configuration, give the same shape and at
\* every node the same response_count mapping and the same suggestions list.
C7_OrderIndependent == \A s \in Orderings : SameTree(BuildTrie(s))

\* ------------------------------------------------------------- C8
\* C8: in a serving phase without insert_response, whatever the interleaving of the
\* per-character steps of concurrent generate_completions calls, each call returns
\* the list it would return if it ran alone on the tree.
C8_ConcurrentQueriesIsolated ==
    \A h \in DOMAIN handlers :
        handlers[h].pc = "done" =>
            handlers[h].ret = GenerateCompletions(Trie, handlers[h].prefix).suggestions_along_path

\* ------------------------------------------------------------- C9
\* C9: generate_completions, for a matched prefix or not, leaves every node's label,
\* children, has_single_child, response_count and suggestions as they are, and
\* max_suggestions and min_words_partial too.
C9_QueryLeavesTreeUnchanged ==
    [][IsQuery' => UNCHANGED <<children, has_single_child, response_count, suggestions,
                               max_suggestions, min_words_partial>>]_vars

\* A query of a prefix that leaves the tree below a node that holds suggestions, on
\* a trie of two insertions or more.
C9_Witness ==
    /\ IsQuery
    /\ NumInserted >= 2
    /\ no_match
    /\ current_node # root
    /\ suggestions[current_node] # <<>>

\* ------------------------------------------------------------- C10
IsRanking == call.op = "generate_suggestions"

\* C10: a negative max_suggestions is rejected lazily: the constructor raises
\* nothing, generate_suggestions with a negative limit raises ValueError at any node,
\* whatever its response_count, and so does every insert_response on a trie
\* constructed with a negative limit, the empty response included.
C10_NegativeLimitRejectedLazily ==
    /\ call = NoCall => raised = "none"
    /\ (IsRanking /\ call.arg.limit.value < 0) => raised = "ValueError"
    /\ (IsInsert /\ max_suggestions.value < 0) => raised = "ValueError"

\* On a trie constructed with a negative integer limit, a second insert_response, of
\* the empty response, raised ValueError.
C10_Witness ==
    /\ max_suggestions = [type |-> "int", value |-> -1]
    /\ IsInsert
    /\ call.arg = <<>>
    /\ NumInserted >= 2
    /\ raised = "ValueError"

\* ------------------------------------------------------------- C11
\* C11 as stated: a limit that is not an integer, whatever its sign, makes
\* generate_suggestions and
\* insert_response raise TypeError.
C11_NonIntegerLimitTypeError ==
    /\ (IsRanking /\ call.arg.limit.type # "int") => raised = "TypeError"
    /\ (IsInsert /\ max_suggestions.type # "int") => raised = "TypeError"

\* C11: a non-integer max_suggestions that is not negative is rejected lazily: the
\* constructor raises nothing, generate_suggestions with such a limit raises TypeError
\* at any node, whatever its response_count, and so does every insert_response on a
\* trie constructed with such a limit.  (A negative one raises ValueError.)
C11_NonIntegerLimitRejectedLazily ==
    /\ (call = NoCall /\ max_suggestions.type # "int") => raised = "none"
    /\ (IsRanking /\ call.arg.limit.type # "int" /\ call.arg.limit.value >= 0)
           => raised = "TypeError"
    /\ (IsInsert /\ max_suggestions.type # "int" /\ max_suggestions.value >= 0)
           => raised = "TypeError"

\* On a trie constructed with the limit 3.0, a second insert_response raised
\* TypeError, on a trie whose nodes hold counts.
C11_Witness ==
    /\ max_suggestions = [type |-> "float", value |-> MaxSugg]
    /\ IsInsert
    /\ NumInserted >= 2
    /\ \E n \in Nodes : response_count[n] # <<>>
    /\ raised = "TypeError"

\* ------------------------------------------------------------- C12
\* C12: on a trie with a non-negative integer max_suggestions, insert_response raises
\* nothing, whatever the response and the insertions before it; inserting the empty
\* response leaves the root with one end-of-response child, created or reused, and
\* creates no other node.
C12_InsertNeverRaises ==
    [][(IsInsert' /\ ValidLimit) =>
          /\ raised' = "none"
          /\ call'.arg = <<>> =>
                /\ DOMAIN children' = DOMAIN children \cup {<<EndLabel>>}
                /\ children'[root] = children[root] \cup {EndLabel}
                /\ children'[<<EndLabel>>] = {}]_vars

\* The empty response was inserted a second time, reusing the end-of-response child
\* of a root that holds another child.
C12_Witness ==
    /\ IsInsert /\ ValidLimit
    /\ call.arg = <<>>
    /\ inserted[<<>>] >= 2
    /\ Cardinality(children[root]) >= 2
    /\ raised = "none"

\* ------------------------------------------------------------- C13
\* Every call of the script has been made and has ended.
ScriptEnded(n) == ScriptDone = n /\ ~Inserting

\* C13: on the trie Trie(max_suggestions=5, min_words_partial=3), after the six
\* insert_response calls of the script, generate_completions('w') returns 'what is
\* the', 'what is your account number', 'what is the issue you are facing', 'what is
\* the account number', 'what is your account number please', in this order.
C13_ScenarioCompletions ==
    (/\ max_suggestions = CompletionsTrie.max_suggestions
     /\ min_words_partial = CompletionsTrie.min_words_partial
     /\ ScriptEnded(Len(Script))
     /\ IsQuery) =>
        returned = <<WhatIsThe, YourAccountNumber, TheIssueYouAreFacing,
                     TheAccountNumber, YourAccountNumberPlease>>

\* The query of the test, made after the six insertions, returned five completions.
C13_Witness ==
    /\ max_suggestions = CompletionsTrie.max_suggestions
    /\ min_words_partial = CompletionsTrie.min_words_partial
    /\ ScriptEnded(Len(Script))
    /\ IsQuery /\ call.arg = ScriptPrefix
    /\ Len(returned) = 5

\* ------------------------------------------------------------- C14
\* C14: on the trie Trie(max_suggestions=6, min_words_partial=1), after the first
\* five insert_response calls of the script, the response_count of the root's child
\* 'w' maps the three sentences inserted once to 1, 'what is the issue you are
\* facing' to 2, 'what is' to 5 and 'what is the' to 3, and has no other key.
C14_ScenarioCounts ==
    (/\ max_suggestions = CountsTrie.max_suggestions
     /\ min_words_partial = CountsTrie.min_words_partial
     /\ ScriptEnded(5)) =>
        SameCounts(response_count[ScriptPrefix],
                   <<<<YourAccountNumberAndAddress, 1>>, <<YourAccountNumber, 1>>,
                     <<TheAccountNumber, 1>>, <<WhatIs, 5>>,
                     <<TheIssueYouAreFacing, 2>>, <<WhatIsThe, 3>>>>)

\* The fifth insertion of the script has ended on the trie of the test, and the
\* root's child 'w' holds six keys.
C14_Witness ==
    /\ max_suggestions = CountsTrie.max_suggestions
    /\ min_words_partial = CountsTrie.min_words_partial
    /\ ScriptEnded(5)
    /\ IsInsert
    /\ Len(response_count[ScriptPrefix]) = 6

\* ------------------------------------------------------------- C15
\* The list lst is what ranking the counts d with the limit m gives: as many keys of
\* d as m allows, none twice, in the order (count descending, length ascending),
\* and no key left out would come before one that is in.
IsRankingOf(d, lst, m) ==
    /\ Len(lst) = (IF m < Len(d) THEN m ELSE Len(d))
    /\ ListItems(lst) \subseteq DictKeys(d)
    /\ NoRepeat(lst)
    /\ Ranked(d, lst)
    /\ \A k \in DictKeys(d) \ ListItems(lst) : \A x \in ListItems(lst) : ~KeyGreater(d, k, x)

\* C15: cache coherence: after every completed insert_response on a trie with a
\* non-negative integer max_suggestions, every node's suggestions are the keys of its
\* response_count sorted by (count descending, length ascending) and cut to
\* max_suggestions, and generate_suggestions run again at the node stores the same
\* list.
C15_CacheCoherent ==
    ValidLimit =>
        \A n \in DOMAIN children :
            /\ IsRankingOf(response_count[n], suggestions[n], max_suggestions.value)
            /\ suggestions[n]
                  = GenerateSuggestions(response_count[n], max_suggestions).suggestions

\* After an insertion, a node holds more keys than max_suggestions allows, and a
\* node's list has two keys of equal count in it.
C15_Witness ==
    /\ IsInsert /\ ValidLimit
    /\ \E n \in Nodes : Len(response_count[n]) > max_suggestions.value
    /\ \E n \in Nodes :
          /\ Len(suggestions[n]) >= 2
          /\ DictGet(response_count[n], suggestions[n][1])
                = DictGet(response_count[n], suggestions[n][2])
          /\ Len(suggestions[n][1]) < Len(suggestions[n][2])

\* ------------------------------------------------------------- C16
\* The sum of f over the set S.
RECURSIVE SumOver(_, _)
SumOver(S, f) ==
    IF S = {} THEN 0
    ELSE LET x == CHOOSE y \in S : TRUE IN f[x] + SumOver(S \ {x}, f)

\* The path of the response r passes through the node n.
PassesThrough(r, n) ==
    Len(n) <= Len(r) + 1 /\ SubSeq(Append(r, EndLabel), 1, Len(n)) = n

\* The number of insertions, each counted, of the responses that share the
\* substring key as a leading part that ends at a space.
Sharing(key) == SumOver({r \in InsertedResponses : key \in Partials(r)}, inserted)

\* The same number, of the responses whose path passes through the node n.
SharingAt(key, n) ==
    SumOver({r \in InsertedResponses : key \in Partials(r) /\ PassesThrough(r, n)}, inserted)

\* C16: after the insertions made so far, at every node, the count of a key that is
\* a partial substring (and no inserted response) is the number of insertions of the
\* responses that share it as a word-aligned leading part: of all of them, or of
\* those that pass through the node.
C16_PartialCountIsSharing ==
    ValidLimit =>
        \A n \in Nodes : \A key \in DictKeys(response_count[n]) \ InsertedResponses :
            \/ DictGet(response_count[n], key) = Sharing(key)
            \/ DictGet(response_count[n], key) = SharingAt(key, n)

\* ------------------------------------------------------------- C17
\* C17: after the insertions made so far, at every node, the count of a key that is
\* an inserted response is the number of times the response was inserted.
C17_ResponseCountIsInsertions ==
    ValidLimit =>
        \A n \in Nodes : \A key \in DictKeys(response_count[n]) \cap InsertedResponses :
            DictGet(response_count[n], key) = inserted[key]

\* ------------------------------------------------------------- C18
\* The nearest node at or above n that holds counts (n is below the root, whose
\* children all hold counts).
NearestCounted(n) ==
    LET counted == {m \in LeadingParts(n) : response_count[m] # <<>>}
    IN CHOOSE m \in counted : \A k \in counted : Len(k) <= Len(m)

\* The only child of the current node.
OnlyChild == Append(current_node, CHOOSE c \in children[current_node] : TRUE)

\* The step taken adds a second child to the current node, which had one.
AddsSecondChild ==
    /\ Inserting
    /\ raised' = "none"
    /\ Cardinality(children[current_node]) = 1
    /\ Cardinality(children'[current_node]) = 2

\* The responses inserted so far, in any specification.
AllInserted == {r \in DOMAIN inserted : inserted[r] > 0}

\* C18: branch-event correction: when a step of an insertion of the response R adds a
\* second child to a node below the root that had one child, the child that was there
\* holds, right after the step, the path snapshot (the response_count of the nearest
\* node at or above the branching node that holds counts) without the key R: it does
\* not hold R, and it holds every response inserted before whose path passes through
\* it, with the number of times it was inserted.  When the branching node is the
\* root, the response_count of the child that was there is left as it is.
C18_BranchCorrection ==
    [][AddsSecondChild =>
          IF current_node = root
          THEN response_count'[OnlyChild] = response_count[OnlyChild]
          ELSE /\ response_count_along_path'.items
                     = response_count[NearestCounted(current_node)]
               /\ response_count'[OnlyChild]
                     = DictDel(response_count[NearestCounted(current_node)], response)
               /\ response \notin DictKeys(response_count'[OnlyChild])
               /\ \A r \in AllInserted \ {response} :
                     PassesThrough(r, OnlyChild) =>
                         DictGet(response_count'[OnlyChild], r) = inserted[r]]_vars

\* ------------------------------------------------------------- C19
\* The parent of a node other than the root.
Parent(n) == SubSeq(n, 1, Len(n) - 1)

\* The node n is at a decision point: a child of the root, or of a node that has more
\* than one child.
AtDecisionPoint(n) == Parent(n) = root \/ Cardinality(children[Parent(n)]) > 1

\* C19: decision-node sparsity: after the insertions made so far, a node with a
\* response_count that is not empty is a child of the root or of a node with more
\* than one child; the root, and every node whose parent is below the root and has
\* one child, have an empty response_count and empty suggestions.
C19_CountsOnlyAtDecisionNodes ==
    /\ response_count[root] = <<>> /\ suggestions[root] = <<>>
    /\ \A n \in Nodes :
          /\ response_count[n] # <<>> => AtDecisionPoint(n)
          /\ ~AtDecisionPoint(n) => (response_count[n] = <<>> /\ suggestions[n] = <<>>)

\* After three insertions, a node two levels below the root holds suggestions, as
\* the child of a node that has branched, and a node below a single child holds none.
C19_Witness ==
    /\ IsInsert /\ NumInserted = MaxInserts
    /\ \E n \in Nodes : Len(n) >= 2 /\ suggestions[n] # <<>> /\ AtDecisionPoint(n)
    /\ \E n \in Nodes : ~AtDecisionPoint(n) /\ response_count[n] = <<>>

\* ------------------------------------------------------------- C20
\* The number of words of s: of its runs of characters other than the space.
NumWords(s) == Cardinality({i \in 1..Len(s) : s[i] # " " /\ (i = 1 \/ s[i - 1] = " ")})

\* The string s is a partial substring of an inserted response, of min_words_partial
\* words or more.
IsLongPartial(s) ==
    /\ \E r \in InsertedResponses : s \in Partials(r)
    /\ NumWords(s) >= min_words_partial

\* C20: partial-substring threshold: after the insertions made so far, every key of a
\* node's response_count that is no inserted response is the stripped leading part,
\* ending at a space, of an inserted response, and has min_words_partial words or
\* more; generate_completions returns no other string either.
C20_PartialThreshold ==
    ValidLimit =>
        /\ \A n \in Nodes : \A key \in DictKeys(response_count[n]) \ InsertedResponses :
              IsLongPartial(key)
        /\ IsQuery => \A s \in ListItems(returned) \ InsertedResponses : IsLongPartial(s)

\* ------------------------------------------------------------- C21
\* The trie object after the step taken.
TrieAfter ==
    [children |-> children', has_single_child |-> has_single_child',
     response_count |-> response_count', suggestions |-> suggestions',
     response |-> response', current_node |-> current_node',
     response_count_along_path |-> response_count_along_path',
     inserted_chars |-> inserted_chars', nodes_with_response |-> nodes_with_response',
     suggestions_along_path |-> suggestions_along_path', no_match |-> no_match',
     err |-> "none"]

\* The characters the insertion in progress on t has not visited yet.
Remaining(t) == SubSeq(t.response, Len(t.inserted_chars) + 1, Len(t.response))

\* The trie the insertion in progress on t ends with, run to its end from t.
Finished(t) == InsertChars(t, Remaining(t))

\* The tries t and u have the same shape, and at every node the same response_count
\* mapping and the same suggestions; the calls that made them raised the same.
SameTrees(t, u) ==
    /\ t.err = u.err
    /\ t.children = u.children
    /\ t.has_single_child = u.has_single_child
    /\ t.suggestions = u.suggestions
    /\ \A n \in DOMAIN t.children : SameCounts(t.response_count[n], u.response_count[n])

\* The step taken is a generate_completions call amid an insertion.
IsMidQuery == Inserting /\ Inserting' /\ inserted_chars' = inserted_chars

\* C21: the traversal state of an insertion is private to the insert_response call: a
\* generate_completions call made between two of its character steps does not change
\* the tree the insertion ends with, which has the shape, the response_count and the
\* suggestions at every node of the tree the insertion ends with when the query is
\* not made.
C21_QueryAmidInsertHarmless ==
    [][IsMidQuery => SameTrees(Finished(TrieAfter), Finished(Trie))]_vars

\* ------------------------------------------------------------- C22
\* The response r starts with the prefix p.
StartsWith(r, p) == Len(p) <= Len(r) /\ SubSeq(r, 1, Len(p)) = p

RECURSIVE InsertionCounts(_)
\* The responses of S with the number of times each was inserted, as a dict.
InsertionCounts(S) ==
    IF S = {} THEN <<>>
    ELSE LET r == CHOOSE x \in S : TRUE
         IN <<<<r, inserted[r]>>>> \o InsertionCounts(S \ {r})

\* The naive reference: the inserted responses that start with p, each with the
\* number of times it was inserted.
Reference(p) == InsertionCounts({r \in InsertedResponses : StartsWith(r, p)})

\* C22: on a trie with a non-negative integer max_suggestions and a min_words_partial
\* larger than the number of words of every response inserted, generate_completions
\* of a non-empty prefix P returns the first max_suggestions of the inserted responses
\* that start with P, in the order (insertions descending, length ascending), the
\* order of responses equal in both left open.
C22_NaiveReference ==
    (/\ IsQuery /\ ValidLimit
     /\ call.arg # <<>>
     /\ \A r \in InsertedResponses : NumWords(r) < min_words_partial) =>
        IsRankingOf(Reference(call.arg), returned, max_suggestions.value)

\* ------------------------------------------------------------- C23
\* C23: suggestions complete what was typed: after insertions of responses that have
\* no space at either end and no two spaces in a row, on a trie with max_suggestions
\* of 1 or more, every string generate_completions returns for a non-empty prefix P
\* starts with P without its trailing spaces: none belongs only to a branch that P
\* has left.
C23_CompletionsStartWithPrefix ==
    (/\ IsQuery
     /\ max_suggestions.type = "int" /\ max_suggestions.value >= 1
     /\ call.arg # <<>>
     /\ \A r \in AllInserted : Clean(r)) =>
        \A s \in ListItems(returned) : StartsWith(s, RStrip(call.arg))

\* A prefix that ends with a space was queried below a node that has branched, and
\* the partial substring that is the prefix without the space was returned with a
\* response.
C23_Witness ==
    /\ IsQuery
    /\ max_suggestions.value >= 2
    /\ \A r \in AllInserted : Clean(r)
    /\ Len(call.arg) = 2 /\ call.arg[2] = " "
    /\ <<call.arg[1]>> \in Nodes /\ ~has_single_child[<<call.arg[1]>>]
    /\ RStrip(call.arg) \in ListItems(returned) \ AllInserted
    /\ \E s \in ListItems(returned) : s \in AllInserted /\ StartsWith(s, call.arg)

\* ------------------------------------------------------------- C24
\* C24: branch-flag invariant: after every call, has_single_child is false at the
\* nodes with two children or more and true at the nodes with one child or none; no
\* child is ever removed and a flag that is false stays false, so that the test of
\* the flag at a decision point agrees with 'the parent has more than one child'.
C24_BranchFlag ==
    [][/\ \A n \in DOMAIN children' :
             has_single_child'[n] <=> Cardinality(children'[n]) < 2
       /\ \A n \in DOMAIN children :
             /\ n \in DOMAIN children'
             /\ children[n] \subseteq children'[n]
             /\ ~has_single_child[n] => ~has_single_child'[n]]_vars

\* After the third insertion, which passed through a node below the root that had
\* branched before it, that node's flag is false, a node with one child has a true
\* flag and so has a node with none.
C24_Witness ==
    /\ IsInsert /\ NumInserted = MaxInserts
    /\ \E n \in PathNodes(call.arg) :
          /\ Len(n) < Len(call.arg)
          /\ ~has_single_child[n]
          /\ Cardinality(children[n]) >= 2
          /\ \A c \in children[n] : response_count[Append(n, c)] # <<>>
          /\ inserted[call.arg] >= 2
    /\ \E n \in Nodes : has_single_child[n] /\ Cardinality(children[n]) = 1
    /\ \E n \in Nodes : has_single_child[n] /\ children[n] = {}

====
